---- MODULE Spec2Model ----
(***************************************************************************)
(* Model of the retrieval core of ai-rag-study-assistant:                  *)
(*   app/rag/ingest.py      chunk_text, _emb_to_blob, ingest_markdown      *)
(*   app/rag/embeddings.py  _mock_embedding, embed_texts                   *)
(*   app/rag/retrieve.py    _cosine_sim_matrix, retrieve                   *)
(*   app/main.py            v1_ingest, v1_chat                             *)
(*                                                                         *)
(* Text is a sequence of one-character strings.  Two specifications:       *)
(*   SpecChunk  one ingest_markdown call, followed statement by statement  *)
(*              through the loop of chunk_text;                            *)
(*   Spec       the store under any sequence of ingest and retrieve calls, *)
(*              each call one atomic step (one committed transaction);     *)
(*   SpecThreads  ingest and chat calls running side by side, each on its  *)
(*              own sqlite connection, statement by statement, any         *)
(*              statement of an ingest's transaction liable to raise;      *)
(*   SpecLive   the calls of Spec with USE_BEDROCK=true: embed_texts asks   *)
(*              the live provider, which answers or fails in any way.      *)
(***************************************************************************)
EXTENDS Integers, Sequences, FiniteSets, TLC

VARIABLES
    chunk_size,   \* CHUNK_SIZE of the process environment    (ingest.py:64)
    overlap,      \* CHUNK_OVERLAP of the process environment (ingest.py:65)
    documents,    \* rows of table documents, in insertion order
    chunks,       \* rows of table chunks, in insertion order
    next_uuid,    \* number of uuid4() values drawn so far
    ingests,      \* history: the ingest_markdown calls that have returned
    resp,         \* what the last call returned to its caller
    call,         \* the ingest_markdown call followed step by step (SpecChunk)
    threads,      \* the calls running side by side, one per worker thread (SpecThreads)
    write_lock    \* the thread whose connection holds sqlite's write lock, or 0

vars == <<chunk_size, overlap, documents, chunks, next_uuid, ingests, resp, call,
          threads, write_lock>>

---------------------------------------------------------------------------
(* Bounds of the model *)

\* longest markdown text given to the step-by-step call
MaxLen == 4
\* loop iterations of chunk_text followed before the call counts as not returning
MaxIters == 6
\* largest CHUNK_SIZE / CHUNK_OVERLAP tried; the smallest is -NegRange
MaxChunkSize == 4
NegRange == 2
\* ingest calls per behaviour of Spec
MaxIngest == 2
\* largest top_k a caller passes
MaxTopK == 2
\* a digest has DigestLen bytes 0..ByteMax; an embedding has EmbDim components
DigestLen == 2
ByteMax == 3
EmbDim == 2

\* TOP_K default (retrieve.py:20)
DefaultTopK == 5

None == "None"

---------------------------------------------------------------------------
(* Text *)

Whitespace == {" "}
Alphabet == {"a", "b", " "}

Min(a, b) == IF a < b THEN a ELSE b
Max(a, b) == IF a > b THEN a ELSE b

RECURSIVE lstrip(_)
lstrip(s) == IF s = <<>> \/ Head(s) \notin Whitespace THEN s ELSE lstrip(Tail(s))

RECURSIVE rstrip(_)
rstrip(s) ==
    IF s = <<>> \/ s[Len(s)] \notin Whitespace THEN s
    ELSE rstrip(SubSeq(s, 1, Len(s) - 1))

\* line 25 without the strip: the text is taken as given
NoStrip(s) == s

\* str.strip()
strip(s) == rstrip(lstrip(s))

\* a slice bound as Python normalises it: negative counts from the end,
\* then clamped to 0..len
SliceIndex(i, n) == IF i < 0 THEN Max(i + n, 0) ELSE Min(i, n)

\* s[i:j]
PySlice(s, i, j) ==
    LET lo == SliceIndex(i, Len(s))
        hi == SliceIndex(j, Len(s))
    IN  IF lo < hi THEN SubSeq(s, lo + 1, hi) ELSE <<>>

TextsOfLen(n) == [1..n -> Alphabet]
Texts == UNION {TextsOfLen(n) : n \in 0..MaxLen}

\* the text of the specification's chunking scenario
ScenarioText == <<"a", "b", "c", "d", "e", "f", "g", "h", "i", "j">>

---------------------------------------------------------------------------
(* chunk_text (ingest.py:20-43) *)

\* lines 25-31: the state of the loop on entry; text is already stripped.
\* offsets records, for each chunk appended, the value of start at that
\* iteration (history, not read by the code).
LoopEntry(text) ==
    [text |-> text, start |-> 0, idx |-> 0, chunks |-> <<>>, offsets |-> <<>>]

\* line 41
NextStart(start, end, next_start) == IF next_start > start THEN next_start ELSE end

\* lines 36-38 with idx advanced on every window, emitted or not
NextIdxEveryWindow(idx, emitted) == idx + 1

\* line 38 (under the test of line 36)
NextIdx(idx, emitted) == IF emitted THEN idx + 1 ELSE idx

\* lines 34-41: one iteration of the while loop
LoopBody(st, cs, ov) ==
    LET end == Min(st.start + cs, Len(st.text))
        chunk == strip(PySlice(st.text, st.start, end))
        emitted == chunk # <<>>
        next_start == end - ov
    IN  [text    |-> st.text,
         start   |-> NextStart(st.start, end, next_start),
         idx     |-> NextIdx(st.idx, emitted),
         chunks  |-> IF emitted
                     THEN Append(st.chunks, [chunk_index |-> st.idx, content |-> chunk])
                     ELSE st.chunks,
         offsets |-> IF emitted THEN Append(st.offsets, st.start) ELSE st.offsets]

\* line 33
LoopCond(st) == st.start < Len(st.text)

\* lines 33-41 run to the end, or for fuel iterations
RECURSIVE RunLoop(_, _, _, _)
RunLoop(st, cs, ov, fuel) ==
    IF ~LoopCond(st) THEN [returned |-> TRUE, st |-> st]
    ELSE IF fuel = 0 THEN [returned |-> FALSE, st |-> st]
    ELSE RunLoop(LoopBody(st, cs, ov), cs, ov, fuel - 1)

\* chunk_text(text, chunk_size, overlap): returned is FALSE when the loop is
\* still running after MaxIters iterations
chunk_text(text, cs, ov) ==
    LET t == strip(text)
    IN  IF t = <<>> THEN [returned |-> TRUE, st |-> LoopEntry(t)]
        ELSE RunLoop(LoopEntry(t), cs, ov, MaxIters)

---------------------------------------------------------------------------
(* embeddings.py *)

\* code points, for the digest only
CharTable == <<" ", "a", "b", "c", "d", "e", "f", "g", "h", "i", "j">>
Ord(c) == CHOOSE i \in 1..Len(CharTable) : CharTable[i] = c

\* hashlib.sha256(text).digest() (line 10), scaled down: DigestLen bytes in
\* 0..ByteMax, a fixed function of the text (byte i is a positional
\* checksum of the characters)
RECURSIVE Checksum(_, _, _)
Checksum(text, i, pos) ==
    IF text = <<>> THEN i
    ELSE (Ord(Head(text)) * (pos + i) + Checksum(Tail(text), i, pos + 1)) % (ByteMax + 1)

sha256(text) == [i \in 1..DigestLen |-> Checksum(text, i, 1)]

\* _mock_embedding (lines 9-15).  out[i] = (b / 255) * 2 - 1 is kept exact by
\* holding every component multiplied by ByteMax: 2 * b - ByteMax.  The
\* cosine of two vectors does not change under this common factor.
\* Sequences are 1-based, so h[i % len(h)] reads h[((i - 1) % len(h)) + 1].
_mock_embedding(text) ==
    LET h == sha256(text)
    IN  [i \in 1..EmbDim |-> 2 * h[((i - 1) % Len(h)) + 1] - ByteMax]

\* embed_texts (lines 18-21), USE_BEDROCK unset or "false"
embed_texts(texts) == [i \in 1..Len(texts) |-> _mock_embedding(texts[i])]

---------------------------------------------------------------------------
(* ingest_markdown (ingest.py:51-93), sqlite path *)

\* _emb_to_blob (lines 46-48): the float32 buffer and its length.  The
\* vectors of the model are the float32 values themselves: the stored
\* vector and the query vector (retrieve.py:25) pass the same conversion.
_emb_to_blob(vec) == [blob |-> vec, dim |-> Len(vec)]

\* lines 82-91: the chunk rows of one document; chunk i takes the i-th
\* uuid4() drawn after the document's
ChunkRows(doc_id, chunk_list, embeddings) ==
    [i \in 1..Min(Len(chunk_list), Len(embeddings)) |->
        LET b == _emb_to_blob(embeddings[i])
        IN  [id            |-> doc_id + i,
             doc_id        |-> doc_id,
             chunk_index   |-> chunk_list[i].chunk_index,
             content       |-> chunk_list[i].content,
             embedding     |-> b.blob,
             embedding_dim |-> b.dim]]

\* lines 77-80
DocumentRow(doc_id, title, source) == [id |-> doc_id, title |-> title, source |-> source]

\* lines 75-93: the tables after the commit, the uuids drawn and the value
\* returned
StoreRows(doc_id, title, source, chunk_list, embeddings) ==
    LET rows == ChunkRows(doc_id, chunk_list, embeddings)
    IN  [documents |-> Append(documents, DocumentRow(doc_id, title, source)),
         chunks    |-> chunks \o rows,
         uuids     |-> 1 + Len(rows),
         result    |-> <<doc_id, Len(chunk_list)>>]

\* line 73
ChunkContents(chunk_list) == [i \in 1..Len(chunk_list) |-> chunk_list[i].content]

\* lines 67-93 once chunk_text has returned chunk_list: the tables after the
\* commit, the uuids drawn and the value returned.  No chunks: line 71
\* returns before any row is written.
IngestTail(doc_id, title, source, chunk_list) ==
    IF chunk_list = <<>>
    THEN [documents |-> documents, chunks |-> chunks,
          uuids |-> 1, result |-> <<doc_id, 0>>]
    ELSE StoreRows(doc_id, title, source, chunk_list,
                   embed_texts(ChunkContents(chunk_list)))

\* the entry of the history for a call that returned
IngestRecord(tenant, title, source, markdown, result) ==
    [tenant |-> tenant, title |-> title, source |-> source, markdown |-> markdown,
     doc_id |-> result[1], chunks_added |-> result[2]]

---------------------------------------------------------------------------
(* Tenants and requests (main.py) *)

\* what the caller sends: the authenticated user and the request's notebook
RawScopes == {<<"u1", None>>, <<"u1", " ">>, <<"u2", "nb">>}

\* main.py:144 and :165, (req.notebook or "default").strip() or "default",
\* on the notebook values of RawScopes
NormaliseNotebook(notebook) ==
    LET given == IF notebook = None \/ notebook = "" THEN "default" ELSE notebook
        stripped == IF given = " " THEN "" ELSE given
    IN  IF stripped = "" THEN "default" ELSE stripped

Tenant(user, notebook) == [user_id |-> user, notebook |-> NormaliseNotebook(notebook)]
Tenants == {Tenant(r[1], r[2]) : r \in RawScopes}
TenantA == Tenant("u1", None)

Titles == {"T"}
Sources == {"local"}

\* the markdown bodies ingested under Spec
Markdowns == {<<>>, <<" ">>, <<"a">>, <<"a", "b">>}
Queries == {<<"a">>, <<" ">>}

\* the (CHUNK_SIZE, CHUNK_OVERLAP) environments of Spec
Environments == {<<3, 1>>, <<0, 0>>, <<0 - 1, 0 - 2>>}

ChunkSizes == (0 - NegRange)..MaxChunkSize
Overlaps == (0 - NegRange)..MaxChunkSize
\* top_k: int | None
NoTopK == [given |-> FALSE, value |-> 0]
TopK(k) == [given |-> TRUE, value |-> k]
GivenTopKs == {TopK(k) : k \in (0 - 1)..MaxTopK}
TopKs == GivenTopKs \cup {NoTopK}

NoCall == [pc |-> "none", markdown |-> <<>>, doc_id |-> 0, iters |-> 0, st |-> LoopEntry(<<>>)]
NoResp == [op |-> "none"]

---------------------------------------------------------------------------
(* SpecChunk: one ingest_markdown call, step by step *)

InitChunk ==
    /\ chunk_size \in ChunkSizes
    /\ overlap \in Overlaps
    /\ documents = <<>>
    /\ chunks = <<>>
    /\ next_uuid = 0
    /\ ingests = <<>>
    /\ resp = NoResp
    /\ \E m \in Texts \cup {ScenarioText} :
          call = [pc |-> "start", markdown |-> m, doc_id |-> 0, iters |-> 0,
                  st |-> LoopEntry(<<>>)]
    /\ threads = <<>>
    /\ write_lock = 0

\* ingest.py:67-68 and 25-31: draw the document id, enter chunk_text, strip
CallEnter ==
    /\ call.pc = "start"
    /\ LET t == strip(call.markdown)
       IN  call' = [call EXCEPT !.doc_id = next_uuid + 1,
                                !.st = LoopEntry(t),
                                !.pc = IF t = <<>> THEN "chunked" ELSE "loop"]
    /\ UNCHANGED <<threads, write_lock, chunk_size, overlap, documents, chunks, next_uuid, ingests, resp>>

\* ingest.py:33-41: one iteration
CallLoopStep ==
    /\ call.pc = "loop"
    /\ LoopCond(call.st)
    /\ call.iters < MaxIters
    /\ call' = [call EXCEPT !.st = LoopBody(call.st, chunk_size, overlap),
                            !.iters = @ + 1]
    /\ UNCHANGED <<threads, write_lock, chunk_size, overlap, documents, chunks, next_uuid, ingests, resp>>

\* ingest.py:33 false, line 43
CallLoopExit ==
    /\ call.pc = "loop"
    /\ ~LoopCond(call.st)
    /\ call' = [call EXCEPT !.pc = "chunked"]
    /\ UNCHANGED <<threads, write_lock, chunk_size, overlap, documents, chunks, next_uuid, ingests, resp>>

\* ingest.py:70-93
CallStore ==
    /\ call.pc = "chunked"
    /\ LET r == IngestTail(call.doc_id, "T", "local", call.st.chunks)
       IN  /\ documents' = r.documents
           /\ chunks' = r.chunks
           /\ next_uuid' = next_uuid + r.uuids
           /\ ingests' = Append(ingests,
                  IngestRecord(TenantA, "T", "local", call.markdown, r.result))
           /\ resp' = [op |-> "ingest", tenant |-> TenantA, error |-> FALSE,
                       markdown |-> call.markdown, result |-> r.result]
    /\ call' = [call EXCEPT !.pc = "done"]
    /\ UNCHANGED <<threads, write_lock, chunk_size, overlap>>

NextChunk == CallEnter \/ CallLoopStep \/ CallLoopExit \/ CallStore

SpecChunk == InitChunk /\ [][NextChunk]_vars

---------------------------------------------------------------------------
(* retrieve (retrieve.py:19-73), sqlite path *)

RECURSIVE SumTo(_, _)
SumTo(f, n) == IF n = 0 THEN 0 ELSE f[n] + SumTo(f, n - 1)

Dot(a, b) == SumTo([i \in 1..Len(a) |-> a[i] * b[i]], Len(a))
NormSq(a) == Dot(a, a)

\* _cosine_sim_matrix (lines 12-16), one row: the score num / sqrt(den2),
\* held exactly.  A zero vector has norm 1e-12 there and numerator 0: score 0.
Cosine(q, v) ==
    IF NormSq(q) * NormSq(v) = 0 THEN [num |-> 0, den2 |-> 1]
    ELSE [num |-> Dot(v, q), den2 |-> NormSq(q) * NormSq(v)]

\* x |-> sign(x) * x * x is increasing, so scores compare by it
SignedSq(x) == IF x < 0 THEN 0 - x * x ELSE x * x
ScoreLess(a, b) == SignedSq(a.num) * b.den2 < SignedSq(b.num) * a.den2

\* line 20: k = top_k or int(os.getenv("TOP_K", "5"))
EffectiveTopK(top_k) ==
    IF ~top_k.given \/ top_k.value = 0 THEN DefaultTopK ELSE top_k.value

\* lines 30-42: SELECT ... FROM chunks c JOIN documents d ON d.id = c.doc_id,
\* with no WHERE clause; the rows in storage order of chunks
SelectRows ==
    LET joined(c) == {j \in 1..Len(documents) : documents[j].id = c.doc_id}
        keep == SelectSeq(chunks, LAMBDA c : joined(c) # {})
    IN  [i \in 1..Len(keep) |->
            [c |-> keep[i], d |-> documents[CHOOSE j \in joined(keep[i]) : TRUE]]]

\* lines 49-51: np.frombuffer(r["embedding"], dtype=float32, count=dim)
Decode(row) == SubSeq(row.c.embedding, 1, row.c.embedding_dim)

\* lines 49-56 raising only for a row longer than the query, a shorter row
\* being scored on the components it has
ScoringRaisesOnLongRows(q, rows) ==
    \E i \in 1..Len(rows) :
        \/ rows[i].c.embedding_dim > Len(rows[i].c.embedding)
        \/ rows[i].c.embedding_dim > Len(q)

\* lines 49-56 raise when a buffer is shorter than its recorded dimension,
\* when the rows differ in dimension (np.vstack) or from the query (M @ q)
ScoringRaises(q, rows) ==
    \E i \in 1..Len(rows) :
        \/ rows[i].c.embedding_dim > Len(rows[i].c.embedding)
        \/ rows[i].c.embedding_dim # Len(q)

\* line 58 with the minus sign lost, np.argsort(sims)[:k]: lowest scores first
RECURSIVE ArgsortAscending(_, _, _)
ArgsortAscending(sims, remaining, len) ==
    IF remaining = {} \/ len = 0 THEN {<<>>}
    ELSE UNION {
           {<<i>> \o rest : rest \in ArgsortAscending(sims, remaining \ {i}, len - 1)} :
           i \in {j \in remaining : \A m \in remaining : ~ScoreLess(sims[m], sims[j])}}

\* line 58, np.argsort(-sims)[:k], len being the length of that slice: every
\* sequence of len indices that begins an order in which the scores do not
\* increase.  The default sort kind is not stable, so the order among equal
\* scores is any.
RECURSIVE Argsort(_, _, _)
Argsort(sims, remaining, len) ==
    IF remaining = {} \/ len = 0 THEN {<<>>}
    ELSE UNION {
           {<<i>> \o rest : rest \in Argsort(sims, remaining \ {i}, len - 1)} :
           i \in {j \in remaining : \A m \in remaining : ~ScoreLess(sims[j], sims[m])}}

\* lines 60-72: one hit
Hit(row, score) ==
    [chunk_id    |-> row.c.id,
     doc_title   |-> row.d.title,
     doc_source  |-> row.d.source,
     chunk_index |-> row.c.chunk_index,
     content     |-> row.c.content,
     score       |-> score]

\* lines 44-73: the results the call can produce once the query vector q
\* and the rows of the SELECT are at hand
RankRows(q, rows, top_k) ==
    LET k == EffectiveTopK(top_k)
    IN  IF rows = <<>> THEN {[error |-> FALSE, hits |-> <<>>]}
        ELSE IF ScoringRaises(q, rows) THEN {[error |-> TRUE, hits |-> <<>>]}
        ELSE LET sims == [i \in 1..Len(rows) |-> Cosine(q, Decode(rows[i]))]
                 len == Len(PySlice([i \in 1..Len(rows) |-> i], 0, k))
             IN  {[error |-> FALSE,
                   hits |-> [n \in 1..len |-> Hit(rows[idx[n]], sims[idx[n]])]] :
                  idx \in Argsort(sims, 1..Len(rows), len)}

\* retrieve(query, top_k): the results the call can produce.  The tenant of
\* the caller is no parameter of it.
retrieve(query, top_k) == RankRows(embed_texts(<<query>>)[1], SelectRows, top_k)

---------------------------------------------------------------------------
(* Spec: the calls, each one atomic *)

Init ==
    /\ \E e \in Environments : chunk_size = e[1] /\ overlap = e[2]
    /\ documents = <<>>
    /\ chunks = <<>>
    /\ next_uuid = 0
    /\ ingests = <<>>
    /\ resp = NoResp
    /\ call = NoCall
    /\ threads = <<>>
    /\ write_lock = 0

\* The last call wrote nothing: a retrieve, a chat, a rejected ingest.  Such a
\* call leaves every variable but resp as it found it, so a read-only call
\* made right after it reaches exactly the states it would reach in its
\* place; the model takes a read-only call only where the previous call was
\* not one.  Ingest calls are taken everywhere.
LastCallReadOnly ==
    \/ resp.op \in {"retrieve", "v1_chat"}
    \/ resp.op = "v1_ingest" /\ resp.error

\* ingest_markdown(title, source, markdown) called for tenant t
\* (ingest.py:51-93).  The call has no parameter for the tenant and writes
\* none.  It does not return while chunk_text is still looping.
IngestCall(t, title, source, markdown, op) ==
    LET doc_id == next_uuid + 1
        listed == chunk_text(markdown, chunk_size, overlap)
        r == IngestTail(doc_id, title, source, listed.st.chunks)
    IN  /\ Len(ingests) < MaxIngest
        /\ listed.returned
        /\ documents' = r.documents
        /\ chunks' = r.chunks
        /\ next_uuid' = next_uuid + r.uuids
        /\ ingests' = Append(ingests, IngestRecord(t, title, source, markdown, r.result))
        /\ resp' = [op |-> op, tenant |-> t, error |-> FALSE,
                    markdown |-> markdown, result |-> r.result]
        /\ UNCHANGED <<threads, write_lock, chunk_size, overlap, call>>

\* a caller of the core
Ingest ==
    \E t \in Tenants, title \in Titles, source \in Sources, markdown \in Markdowns :
        IngestCall(t, title, source, markdown, "ingest")

\* main.py:141-142
V1IngestRejected ==
    /\ ~LastCallReadOnly
    /\ \E t \in {Tenant(raw[1], raw[2]) : raw \in RawScopes}, markdown \in Markdowns :
          /\ strip(markdown) = <<>>
          /\ resp' = [op |-> "v1_ingest", tenant |-> t, error |-> TRUE,
                      status |-> 400, markdown |-> markdown]
    /\ UNCHANGED <<threads, write_lock, chunk_size, overlap, documents, chunks, next_uuid, ingests, call>>

\* main.py:144-154
V1IngestAccepted ==
    \E t \in {Tenant(raw[1], raw[2]) : raw \in RawScopes},
       title \in Titles, source \in Sources, markdown \in Markdowns :
        /\ strip(markdown) # <<>>
        /\ IngestCall(t, title, source, markdown, "v1_ingest")

\* POST /v1/ingest (main.py:139-156)
V1Ingest == V1IngestRejected \/ V1IngestAccepted

\* a caller of the core: retrieve for tenant t
Retrieve ==
    /\ ~LastCallReadOnly
    /\ \E query \in Queries, top_k \in TopKs :
          \E r \in retrieve(query, top_k), t \in Tenants :
              resp' = [op |-> "retrieve", tenant |-> t, query |-> query, top_k |-> top_k,
                       error |-> r.error, hits |-> r.hits]
    /\ UNCHANGED <<threads, write_lock, chunk_size, overlap, documents, chunks, next_uuid, ingests, call>>

\* main.py:172 with the test dropped
NotHitsNever(hits) == FALSE

\* main.py:172, `not hits`
NotHits(hits) == hits = <<>>

\* rag/chat.py:7-13, USE_BEDROCK unset: the fixed reply, whatever the prompt
generate_answer(prompt) == "Bedrock generation disabled."

\* main.py:175-204: the prompt, held as the question and the context blocks
Prompt(q, hits) ==
    [question |-> q, context |-> [n \in 1..Len(hits) |-> hits[n].content]]

\* POST /v1/chat (main.py:159-214)
V1Chat ==
    /\ ~LastCallReadOnly
    /\ \E req_q \in Queries, top_k \in GivenTopKs :
          LET q == strip(req_q)
              scopes == {Tenant(raw[1], raw[2]) : raw \in RawScopes}
          IN  IF q = <<>>
              THEN \E t \in scopes :
                     resp' = [op |-> "v1_chat", tenant |-> t, query |-> q, top_k |-> top_k,
                              status |-> 400, error |-> TRUE, hits |-> <<>>,
                              grounded |-> FALSE, generated |-> FALSE,
                              answer |-> ""]
              ELSE \E r \in retrieve(q, top_k), t \in scopes :
                     resp' = [op |-> "v1_chat", tenant |-> t, query |-> q, top_k |-> top_k,
                              status |-> IF r.error THEN 500 ELSE 200,
                              error |-> r.error,
                              hits |-> r.hits,
                              grounded |-> ~r.error /\ ~NotHits(r.hits),
                              generated |-> ~r.error /\ ~NotHits(r.hits),
                              answer |-> IF r.error THEN ""
                                         ELSE IF NotHits(r.hits)
                                         THEN "Not found in knowledge base."
                                         ELSE generate_answer(Prompt(q, r.hits))]
    /\ UNCHANGED <<threads, write_lock, chunk_size, overlap, documents, chunks, next_uuid, ingests, call>>

Next == Ingest \/ V1Ingest \/ Retrieve \/ V1Chat

Spec == Init /\ [][Next]_vars

---------------------------------------------------------------------------
(* SpecThreads: calls side by side.  The endpoints are plain functions, run *)
(* on worker threads; every call opens a connection of its own (db.py:26). *)

\* calls per behaviour, each on a thread of its own
MaxThreads == 3
Threads == 1..MaxThreads

ThreadEnvironments == {<<1, 0>>}
ThreadMarkdowns == {<<" ">>, <<"a", "b">>}
ThreadQueries == {<<"a">>, <<" ">>}
ThreadTopKs == {TopK(1), TopK(2)}

\* a thread that has not been given a call.  txn_documents and txn_chunks are
\* the rows of the connection's open transaction; written counts the INSERTs
\* the call has executed; rows is what its SELECT fetched.
IdleThread ==
    [op |-> "none", pc |-> "idle", text |-> <<>>, top_k |-> NoTopK,
     doc_id |-> 0, document |-> <<>>, produced |-> <<>>, written |-> 0,
     txn_documents |-> <<>>, txn_chunks |-> <<>>,
     rows |-> <<>>, hits |-> <<>>, error |-> FALSE, status |-> 0,
     prompt |-> <<>>, generated |-> FALSE, grounded |-> FALSE, answer |-> ""]

\* conn.execute of an INSERT on a connection in autocommit mode
\* (isolation_level=None): the row is in the table at once
ExecuteAutocommit(table, pending, row) ==
    [table |-> Append(table, row), pending |-> pending]

\* conn.execute of an INSERT on a connection as sqlite3.connect(SQLITE_PATH)
\* opens it (db.py:26, default isolation level): the row joins the
\* connection's open transaction, which no other connection reads
Execute(table, pending, row) ==
    [table |-> table, pending |-> Append(pending, row)]

InitThreads ==
    /\ \E e \in ThreadEnvironments : chunk_size = e[1] /\ overlap = e[2]
    /\ documents = <<>>
    /\ chunks = <<>>
    /\ next_uuid = 0
    /\ ingests = <<>>
    /\ resp = NoResp
    /\ call = NoCall
    /\ threads = [p \in Threads |-> IdleThread]
    /\ write_lock = 0

\* threads are handed out in order
NextIdle(p) ==
    /\ threads[p].pc = "idle"
    /\ \A o \in 1..(p - 1) : threads[o].pc # "idle"

\* ingest.py:64-73 on thread p: no chunks, line 71 returns; otherwise the
\* rows to insert are ready.  The uuid4() values of the call are all drawn
\* here.
TIngestBegin(p) ==
    /\ NextIdle(p)
    /\ \E title \in Titles, source \in Sources, markdown \in ThreadMarkdowns :
          LET doc_id == next_uuid + 1
              listed == chunk_text(markdown, chunk_size, overlap)
              chunk_list == listed.st.chunks
              rows == ChunkRows(doc_id, chunk_list, embed_texts(ChunkContents(chunk_list)))
          IN  /\ listed.returned
              /\ next_uuid' = next_uuid + 1 + Len(rows)
              /\ threads' = [threads EXCEPT ![p] =
                    [@ EXCEPT !.op = "ingest", !.text = markdown, !.doc_id = doc_id,
                              !.document = <<DocumentRow(doc_id, title, source)>>,
                              !.produced = rows,
                              !.pc = IF chunk_list = <<>> THEN "returned"
                                     ELSE "insert_document"]]
    /\ UNCHANGED <<chunk_size, overlap, documents, chunks, ingests, resp, call, write_lock>>

\* ingest.py:76-80: the connection takes the write lock, which one
\* connection holds at a time, and inserts the document row
TInsertDocument(p) ==
    /\ threads[p].pc = "insert_document"
    /\ write_lock = 0
    /\ LET w == Execute(documents, threads[p].txn_documents, threads[p].document[1])
       IN  /\ documents' = w.table
           /\ threads' = [threads EXCEPT ![p] =
                 [@ EXCEPT !.txn_documents = w.pending, !.written = @ + 1,
                           !.pc = "insert_chunks"]]
    /\ write_lock' = p
    /\ UNCHANGED <<chunk_size, overlap, chunks, next_uuid, ingests, resp, call>>

\* ingest.py:82-91: one turn of the loop
TInsertChunk(p) ==
    /\ threads[p].pc = "insert_chunks"
    /\ LET t == threads[p]
           w == Execute(chunks, t.txn_chunks, t.produced[t.written])
       IN  /\ chunks' = w.table
           /\ threads' = [threads EXCEPT ![p] =
                 [@ EXCEPT !.txn_chunks = w.pending, !.written = @ + 1,
                           !.pc = IF t.written = Len(t.produced) THEN "commit"
                                  ELSE "insert_chunks"]]
    /\ UNCHANGED <<chunk_size, overlap, documents, next_uuid, ingests, resp, call, write_lock>>

\* db.py:32-34 and ingest.py:93: commit, close, return (doc_id, len(chunks))
TCommit(p) ==
    /\ threads[p].pc = "commit"
    /\ documents' = documents \o threads[p].txn_documents
    /\ chunks' = chunks \o threads[p].txn_chunks
    /\ threads' = [threads EXCEPT ![p] =
          [@ EXCEPT !.txn_documents = <<>>, !.txn_chunks = <<>>, !.pc = "returned"]]
    /\ write_lock' = 0
    /\ UNCHANGED <<chunk_size, overlap, next_uuid, ingests, resp, call>>

\* a statement of the transaction raises sqlite3.Error (the lock wait timed
\* out, the disk is full, ...): the exception leaves the with block through
\* the finally of db.py:33-34, which closes the connection without a commit,
\* and the open transaction is rolled back; ingest_markdown raises
TRaise(p) ==
    /\ threads[p].pc \in {"insert_document", "insert_chunks", "commit"}
    /\ threads' = [threads EXCEPT ![p] =
          [@ EXCEPT !.txn_documents = <<>>, !.txn_chunks = <<>>,
                    !.error = TRUE, !.pc = "raised"]]
    /\ write_lock' = IF write_lock = p THEN 0 ELSE write_lock
    /\ UNCHANGED <<chunk_size, overlap, documents, chunks, next_uuid, ingests, resp, call>>

\* main.py:161-165: /v1/chat on thread p; an empty question is refused
TChatBegin(p) ==
    /\ NextIdle(p)
    /\ \E req_q \in ThreadQueries, top_k \in ThreadTopKs :
          LET q == strip(req_q)
          IN  threads' = [threads EXCEPT ![p] =
                 IF q = <<>>
                 THEN [@ EXCEPT !.op = "v1_chat", !.text = q, !.top_k = top_k,
                                !.error = TRUE, !.status = 400, !.pc = "returned"]
                 ELSE [@ EXCEPT !.op = "v1_chat", !.text = q, !.top_k = top_k,
                                !.pc = "select"]]
    /\ UNCHANGED <<chunk_size, overlap, documents, chunks, next_uuid, ingests, resp, call,
                   write_lock>>

\* retrieve.py:28-42: the SELECT, on a connection of its own; it reads the
\* tables as committed
TSelect(p) ==
    /\ threads[p].pc = "select"
    /\ threads' = [threads EXCEPT ![p] = [@ EXCEPT !.rows = SelectRows, !.pc = "rank"]]
    /\ UNCHANGED <<chunk_size, overlap, documents, chunks, next_uuid, ingests, resp, call,
                   write_lock>>

\* retrieve.py:44-73 and main.py:169-173: the hits; an exception is
\* answered with 500, no hits with "Not found in knowledge base."
TRank(p) ==
    /\ threads[p].pc = "rank"
    /\ \E r \in RankRows(embed_texts(<<threads[p].text>>)[1], threads[p].rows,
                         threads[p].top_k) :
          threads' = [threads EXCEPT ![p] =
             IF r.error
             THEN [@ EXCEPT !.rows = <<>>, !.error = TRUE, !.status = 500, !.pc = "returned"]
             ELSE IF NotHits(r.hits)
             THEN [@ EXCEPT !.rows = <<>>, !.status = 200,
                            !.answer = "Not found in knowledge base.",
                            !.pc = "returned"]
             ELSE [@ EXCEPT !.rows = <<>>, !.hits = r.hits, !.pc = "answer"]]
    /\ UNCHANGED <<chunk_size, overlap, documents, chunks, next_uuid, ingests, resp, call,
                   write_lock>>

\* main.py:175-214: the prompt is built and given to generate_answer
TAnswer(p) ==
    /\ threads[p].pc = "answer"
    /\ LET prompt == Prompt(threads[p].text, threads[p].hits)
       IN  threads' = [threads EXCEPT ![p] =
              [@ EXCEPT !.prompt = <<prompt>>, !.generated = TRUE,
                        !.answer = generate_answer(prompt), !.grounded = TRUE,
                        !.status = 200, !.pc = "returned"]]
    /\ UNCHANGED <<chunk_size, overlap, documents, chunks, next_uuid, ingests, resp, call,
                   write_lock>>

NextThreads ==
    \E p \in Threads :
        \/ TIngestBegin(p)
        \/ TInsertDocument(p)
        \/ TInsertChunk(p)
        \/ TCommit(p)
        \/ TRaise(p)
        \/ TChatBegin(p)
        \/ TSelect(p)
        \/ TRank(p)
        \/ TAnswer(p)

SpecThreads == InitThreads /\ [][NextThreads]_vars

---------------------------------------------------------------------------
(* SpecLive: the calls of Spec with USE_BEDROCK=true (embeddings.py:23-43) *)

\* the vectors the live model returns; their dimension is the model's
\* (BEDROCK_EMBEDDING_MODEL_ID), here not that of the offline vector
LiveVectors == {[i \in 1..(EmbDim + 1) |-> 1]}

\* what one invoke_model call does (lines 30-38): it returns a body holding
\* an embedding; it raises BotoCoreError or ClientError; its body is no JSON
\* or has no "embedding" key (ValueError, KeyError); its body is JSON but no
\* object, and json.loads(body)["embedding"] raises TypeError
Replies ==
    {[kind |-> "embedding", vec |-> v] : v \in LiveVectors}
        \cup {[kind |-> k, vec |-> <<>>] : k \in {"client_error", "malformed", "not_object"}}

\* line 40: the exceptions the except clause names
Caught == {"client_error", "malformed"}

\* the provider during one call: whether boto3.client(...) returned, and
\* the replies to the texts, one after the other (none without a client)
Providers(n) ==
    {[client_ok |-> FALSE, replies |-> <<>>]}
        \cup {[client_ok |-> TRUE, replies |-> rs] : rs \in [1..n -> Replies]}

EmbedRaised == [raised |-> TRUE, vectors |-> <<>>]

\* lines 23-43: client_ok tells whether boto3.client(...) of line 25
\* returned or raised, replies what invoke_model did for each text.  Line 25
\* stands before the try of line 29.
embed_texts_bedrock(texts, client_ok, replies) ==
    IF ~client_ok THEN EmbedRaised
    ELSE IF \E i \in 1..Len(texts) : replies[i].kind \notin Caught \cup {"embedding"}
    THEN EmbedRaised
    ELSE [raised |-> FALSE,
          vectors |-> [i \in 1..Len(texts) |->
                          IF replies[i].kind = "embedding" THEN replies[i].vec
                          ELSE _mock_embedding(texts[i])]]

\* what a call records of its use of embed_texts
Embedded(texts, client_ok, replies, e) ==
    [called |-> TRUE, texts |-> texts, client_ok |-> client_ok, replies |-> replies,
     raised |-> e.raised, vectors |-> e.vectors]
NotEmbedded ==
    [called |-> FALSE, texts |-> <<>>, client_ok |-> TRUE, replies |-> <<>>,
     raised |-> FALSE, vectors |-> <<>>]

LiveEnvironments == {<<1, 0>>}
LiveMarkdowns == {<<" ">>, <<"a">>, <<"a", "b">>}
LiveTopKs == {NoTopK, TopK(1)}

InitLive ==
    /\ \E e \in LiveEnvironments : chunk_size = e[1] /\ overlap = e[2]
    /\ documents = <<>>
    /\ chunks = <<>>
    /\ next_uuid = 0
    /\ ingests = <<>>
    /\ resp = NoResp
    /\ call = NoCall
    /\ threads = <<>>
    /\ write_lock = 0

\* The last call wrote nothing (a retrieve, an ingest that raised); as in
\* Spec, such a call is taken only where the previous call was not one.
LiveCallReadOnly ==
    \/ resp.op = "retrieve"
    \/ resp.op = "ingest" /\ resp.error

\* ingest_markdown (ingest.py:64-93): an exception of embed_texts (line 73)
\* leaves the call before the connection is opened, and the document id
\* drawn at line 67 is dropped with it (the model draws it again)
LiveIngest ==
    /\ Len(ingests) < MaxIngest
    /\ \E title \in Titles, source \in Sources, markdown \in LiveMarkdowns :
          LET doc_id == next_uuid + 1
              listed == chunk_text(markdown, chunk_size, overlap)
              chunk_list == listed.st.chunks
              texts == ChunkContents(chunk_list)
          IN  /\ listed.returned
              /\ IF chunk_list = <<>>
                 THEN /\ resp' = [op |-> "ingest", error |-> FALSE, markdown |-> markdown,
                                  result |-> <<doc_id, 0>>, embed |-> NotEmbedded]
                      /\ ingests' = Append(ingests,
                            IngestRecord(TenantA, title, source, markdown, <<doc_id, 0>>))
                      /\ next_uuid' = next_uuid + 1
                      /\ UNCHANGED <<documents, chunks>>
                 ELSE \E pr \in Providers(Len(texts)) :
                        LET client_ok == pr.client_ok
                            replies == pr.replies
                            e == embed_texts_bedrock(texts, client_ok, replies)
                            r == StoreRows(doc_id, title, source, chunk_list, e.vectors)
                        IN  IF e.raised
                            THEN /\ resp' = [op |-> "ingest", error |-> TRUE,
                                             markdown |-> markdown, result |-> <<doc_id, 0>>,
                                             embed |-> Embedded(texts, client_ok, replies, e)]
                                 /\ ~LiveCallReadOnly
                                 /\ UNCHANGED <<documents, chunks, ingests, next_uuid>>
                            ELSE /\ resp' = [op |-> "ingest", error |-> FALSE,
                                             markdown |-> markdown, result |-> r.result,
                                             embed |-> Embedded(texts, client_ok, replies, e)]
                                 /\ documents' = r.documents
                                 /\ chunks' = r.chunks
                                 /\ next_uuid' = next_uuid + r.uuids
                                 /\ ingests' = Append(ingests,
                                       IngestRecord(TenantA, title, source, markdown, r.result))
    /\ UNCHANGED <<threads, write_lock, chunk_size, overlap, call>>

\* retrieve (retrieve.py:19-73): the query is embedded (line 24), then the
\* rows are fetched and ranked
LiveRetrieve ==
    /\ ~LiveCallReadOnly
    /\ \E query \in Queries, top_k \in LiveTopKs, pr \in Providers(1) :
          LET client_ok == pr.client_ok
              replies == pr.replies
              e == embed_texts_bedrock(<<query>>, client_ok, replies)
              embed == Embedded(<<query>>, client_ok, replies, e)
          IN  IF e.raised
              THEN resp' = [op |-> "retrieve", query |-> query, top_k |-> top_k,
                            embed |-> embed, error |-> TRUE, hits |-> <<>>]
              ELSE \E r \in RankRows(e.vectors[1], SelectRows, top_k) :
                     resp' = [op |-> "retrieve", query |-> query, top_k |-> top_k,
                              embed |-> embed, error |-> r.error, hits |-> r.hits]
    /\ UNCHANGED <<threads, write_lock, chunk_size, overlap, documents, chunks, next_uuid,
                   ingests, call>>

NextLive == LiveIngest \/ LiveRetrieve

SpecLive == InitLive /\ [][NextLive]_vars

---------------------------------------------------------------------------
(* Vocabulary of the properties *)

IsBlank(text) == \A i \in 1..Len(text) : text[i] \in Whitespace

\* the last call was a retrieve that returned, directly or under /v1/chat
Retrieved ==
    /\ resp.op \in {"retrieve", "v1_chat"}
    /\ ~resp.error

\* the tenants whose ingest call produced the document
IngestedBy(doc_id) ==
    {ingests[i].tenant : i \in {j \in 1..Len(ingests) : ingests[j].doc_id = doc_id}}

ChunkRow(chunk_id) == chunks[CHOOSE i \in 1..Len(chunks) : chunks[i].id = chunk_id]

\* the chunk rows stored for tenant t
CorpusOf(t) == SelectSeq(chunks, LAMBDA c : IngestedBy(c.doc_id) = {t})

\* the chunk rows of a document, in storage order
RowsOf(doc_id) == SelectSeq(chunks, LAMBDA c : c.doc_id = doc_id)

HitIds == {resp.hits[n].chunk_id : n \in 1..Len(resp.hits)}

\* table documents holds a row for the document
DocumentStored(doc_id) == \E j \in 1..Len(documents) : documents[j].id = doc_id

\* the threads whose call is an ingest that got as far as its transaction
Ingesting == {p \in DOMAIN threads : threads[p].op = "ingest" /\ threads[p].produced # <<>>}

---------------------------------------------------------------------------
(* C1 *)

\* C1: every hit of a retrieve made for a tenant is a chunk that was
\* ingested under that tenant.
C1_TenantIsolation ==
    Retrieved =>
        \A n \in 1..Len(resp.hits) :
            IngestedBy(ChunkRow(resp.hits[n].chunk_id).doc_id) = {resp.tenant}

---------------------------------------------------------------------------
(* C2 *)

\* C2: in chunk_text the window start strictly increases on every iteration
\* of the loop, whatever chunk_size and overlap are.
C2_StartIncreases ==
    [][CallLoopStep => call'.st.start > call.st.start]_vars

---------------------------------------------------------------------------
(* C3 *)

ScenarioChunks ==
    <<[chunk_index |-> 0, content |-> <<"a", "b", "c", "d">>],
      [chunk_index |-> 1, content |-> <<"c", "d", "e", "f">>],
      [chunk_index |-> 2, content |-> <<"e", "f", "g", "h">>],
      [chunk_index |-> 3, content |-> <<"g", "h", "i", "j">>]>>

\* C3: with 0 <= overlap < chunk_size, a window that reaches the end of the
\* text is the last chunk emitted, and "abcdefghij" with chunk_size 4 and
\* overlap 2 gives exactly abcd, cdef, efgh, ghij with indices 0 to 3.
C3_StopsAtEndOfText ==
    (call.pc \in {"chunked", "done"} /\ 0 <= overlap /\ overlap < chunk_size) =>
        /\ \A i \in 1..Len(call.st.offsets) :
              call.st.offsets[i] + chunk_size >= Len(call.st.text)
                  => i = Len(call.st.offsets)
        /\ (call.markdown = ScenarioText /\ chunk_size = 4 /\ overlap = 2)
              => call.st.chunks = ScenarioChunks

---------------------------------------------------------------------------
(* C4 *)

\* C4: the chunks emitted so far carry the indices 0, 1, 2, ... in the order
\* of emission, which is the increasing order of their window starts, and
\* the rows stored for the document carry the same indices and contents.
C4_IndicesContiguous ==
    /\ Len(call.st.offsets) = Len(call.st.chunks)
    /\ \A i \in 1..Len(call.st.chunks) : call.st.chunks[i].chunk_index = i - 1
    /\ \A i \in 1..(Len(call.st.offsets) - 1) :
          call.st.offsets[i] < call.st.offsets[i + 1]
    /\ call.pc = "done" =>
          LET rows == RowsOf(call.doc_id)
          IN  /\ Len(rows) = Len(call.st.chunks)
              /\ \A i \in 1..Len(rows) :
                    /\ rows[i].chunk_index = i - 1
                    /\ rows[i].content = call.st.chunks[i].content

\* a call that stored at least two chunks after dropping an empty window
C4_Witness ==
    /\ call.pc = "done"
    /\ Len(RowsOf(call.doc_id)) >= 2
    /\ call.iters > Len(call.st.chunks)
    /\ \E i \in 1..Len(call.st.text) : call.st.text[i] \in Whitespace

---------------------------------------------------------------------------
(* C5 *)

\* C5: a retrieve given the integer top_k = k returns at most k hits (stated
\* for k >= 0: below zero no number of hits is at most k).
C5_AtMostTopK ==
    (Retrieved /\ resp.top_k.given /\ resp.top_k.value >= 0)
        => Len(resp.hits) <= resp.top_k.value

---------------------------------------------------------------------------
(* C6 *)

QueryVector == embed_texts(<<resp.query>>)[1]

\* C6: the hits come in non-increasing score order, and no stored chunk that
\* was not returned (the caller's own chunks among them) scores strictly
\* higher than a returned hit.
C6_HighestScoresFirst ==
    Retrieved =>
        /\ \A n \in 1..(Len(resp.hits) - 1) :
              ~ScoreLess(resp.hits[n].score, resp.hits[n + 1].score)
        /\ \A i \in 1..Len(chunks) :
              chunks[i].id \notin HitIds =>
                  \A n \in 1..Len(resp.hits) :
                      ~ScoreLess(resp.hits[n].score,
                                 Cosine(QueryVector, chunks[i].embedding))

\* two hits of different score were returned and a lower-scoring chunk was left out
C6_Witness ==
    /\ Retrieved
    /\ Len(resp.hits) >= 2
    /\ ScoreLess(resp.hits[2].score, resp.hits[1].score)
    /\ \E i \in 1..Len(chunks) :
          /\ chunks[i].id \notin HitIds
          /\ ScoreLess(Cosine(QueryVector, chunks[i].embedding),
                       resp.hits[Len(resp.hits)].score)

---------------------------------------------------------------------------
(* C7 *)

\* C7: a retrieve for a tenant that has no chunks stored returns the empty
\* sequence, whatever the other tenants have stored.
C7_EmptyCorpusNoHits ==
    (resp.op \in {"retrieve", "v1_chat"} /\ resp.query # <<>>
        /\ CorpusOf(resp.tenant) = <<>>)
        => (~resp.error /\ resp.hits = <<>>)

---------------------------------------------------------------------------
(* C8 *)

\* C8: an ingest of empty or whitespace-only markdown, by a direct call or
\* through /v1/ingest, is not refused: it returns (document_id, 0) and
\* leaves no chunk row for that document.
C8_BlankIngestSucceeds ==
    (resp.op \in {"ingest", "v1_ingest"} /\ IsBlank(resp.markdown)) =>
        /\ ~resp.error
        /\ resp.result[2] = 0
        /\ RowsOf(resp.result[1]) = <<>>

\* C8 as amended: ingest_markdown given empty or whitespace-only markdown
\* returns (document_id, 0) and leaves no chunk row for that document, while
\* /v1/ingest refuses such markdown with status 400.
C8_BlankIngestCore ==
    /\ (resp.op = "ingest" /\ IsBlank(resp.markdown)) =>
          /\ ~resp.error
          /\ resp.result[2] = 0
          /\ RowsOf(resp.result[1]) = <<>>
    /\ (resp.op = "v1_ingest" /\ IsBlank(resp.markdown)) =>
          /\ resp.error
          /\ resp.status = 400

\* whitespace-only markdown was ingested by a direct call into a store that
\* already holds chunks
C8_Witness ==
    /\ resp.op = "ingest"
    /\ resp.markdown = <<" ">>
    /\ resp.result[2] = 0
    /\ chunks # <<>>

---------------------------------------------------------------------------
(* C9 *)

\* C9: every document id an ingest has returned is the id of a row of
\* table documents.
C9_ReturnedDocumentRecorded ==
    \A i \in 1..Len(ingests) :
        \E j \in 1..Len(documents) : documents[j].id = ingests[i].doc_id

---------------------------------------------------------------------------
(* C10 *)

\* C10: two ingest calls with the same title, source and markdown returned
\* distinct document ids and equal chunk counts, and the store holds both
\* documents, each with as many chunk rows as its call returned.
C10_NoDeduplication ==
    \A i, j \in 1..Len(ingests) :
        (i < j /\ ingests[i].title = ingests[j].title
               /\ ingests[i].source = ingests[j].source
               /\ ingests[i].markdown = ingests[j].markdown) =>
            /\ ingests[i].doc_id # ingests[j].doc_id
            /\ ingests[i].chunks_added = ingests[j].chunks_added
            /\ \A x \in {i, j} :
                  /\ \E d \in 1..Len(documents) : documents[d].id = ingests[x].doc_id
                  /\ Len(RowsOf(ingests[x].doc_id)) = ingests[x].chunks_added

---------------------------------------------------------------------------
(* C11 *)

\* C11: an ingest whose transaction raised at any statement has signalled
\* the error and has left neither its document row nor any of its chunk
\* rows in the tables; and the tables never hold a document with only some
\* of its chunks: they hold the document row together with every chunk row
\* the call produced, or nothing of the call.
C11_AllOrNothing ==
    \A p \in Ingesting :
        LET t == threads[p]
        IN  /\ t.pc = "raised" =>
                  /\ t.error
                  /\ ~DocumentStored(t.doc_id)
                  /\ RowsOf(t.doc_id) = <<>>
            /\ \/ ~DocumentStored(t.doc_id) /\ RowsOf(t.doc_id) = <<>>
               \/ DocumentStored(t.doc_id) /\ RowsOf(t.doc_id) = t.produced

\* an ingest raised after it had inserted its document row and a chunk row,
\* beside an ingest that committed
C11_Witness ==
    \E p, o \in Ingesting :
        /\ threads[p].pc = "raised"
        /\ threads[p].written >= 2
        /\ threads[o].pc = "returned"
        /\ RowsOf(threads[o].doc_id) = threads[o].produced

---------------------------------------------------------------------------
(* C12 *)

\* the rows the last retrieve scanned: a retrieve writes nothing
ScannedDims == {SelectRows[i].c.embedding_dim : i \in 1..Len(SelectRows)}

\* C12: a retrieve whose query was embedded and which scanned a row whose
\* recorded dimension is not the dimension of the query vector fails as a
\* whole: it raises and returns no hits.
C12_DimensionMismatchFails ==
    (resp.op = "retrieve" /\ ~resp.embed.raised
        /\ \E d \in ScannedDims : d # Len(resp.embed.vectors[1]))
        => (resp.error /\ resp.hits = <<>>)

\* a retrieve failed over a store holding a row of the query's dimension
\* and a row of another
C12_Witness ==
    /\ resp.op = "retrieve"
    /\ ~resp.embed.raised
    /\ resp.error
    /\ \E d, e \in ScannedDims :
          d = Len(resp.embed.vectors[1]) /\ e # Len(resp.embed.vectors[1])

---------------------------------------------------------------------------
(* C13 *)

\* C13: whatever the provider did during a call of embed_texts (client
\* construction, invocation, response), the call did not raise and returned
\* one vector per text, in order: the provider's where it gave one, the
\* offline vector of the text where it failed.
C13_EmbedNeverFails ==
    (resp.op \in {"ingest", "retrieve"} /\ resp.embed.called) =>
        LET e == resp.embed
        IN  /\ ~e.raised
            /\ Len(e.vectors) = Len(e.texts)
            /\ \A i \in 1..Len(e.texts) :
                  e.vectors[i] =
                      IF e.client_ok /\ e.replies[i].kind = "embedding"
                      THEN e.replies[i].vec
                      ELSE _mock_embedding(e.texts[i])

---------------------------------------------------------------------------
(* C14 *)

Chatting == {p \in DOMAIN threads : threads[p].op = "v1_chat"}

\* C14: a chat request for which a prompt was built or the answer generator
\* was invoked is one whose retrieve had returned at least one hit; a chat
\* request whose retrieve returned no hit is answered "not found" with
\* grounded = false, without a prompt and without the generator.
C14_Grounding ==
    \A p \in Chatting :
        LET t == threads[p]
        IN  /\ (t.generated \/ t.prompt # <<>> \/ t.pc = "answer") => t.hits # <<>>
            /\ (t.pc = "returned" /\ ~t.error /\ t.hits = <<>>) =>
                  /\ t.answer = "Not found in knowledge base."
                  /\ ~t.grounded
                  /\ ~t.generated
                  /\ t.prompt = <<>>

\* one chat request was answered "not found" and another from its hits
C14_Witness ==
    \E p, o \in Chatting :
        /\ threads[p].pc = "returned"
        /\ threads[p].answer = "Not found in knowledge base."
        /\ ~threads[p].grounded
        /\ threads[o].pc = "returned"
        /\ threads[o].generated
        /\ threads[o].grounded

---------------------------------------------------------------------------
(* C15 *)

\* the rows a SELECT fetched for the document
Fetched(rows, doc_id) == SelectSeq(rows, LAMBDA r : r.c.doc_id = doc_id)

\* every call that was started has returned or raised
AllCompleted == \A p \in DOMAIN threads : threads[p].pc \in {"idle", "returned", "raised"}

\* C15: the rows a retrieve fetched hold, of each document, all the chunk
\* rows its ingest produced or none; and once every call has completed the
\* tables hold, for each ingest that returned, its document row once and
\* exactly the chunk rows it produced, and no row of any other document.
C15_ConcurrentIngestRetrieve ==
    /\ \A p \in DOMAIN threads : threads[p].pc = "rank" =>
          \A o \in Ingesting :
              LET n == Len(Fetched(threads[p].rows, threads[o].doc_id))
              IN  n = 0 \/ n = Len(threads[o].produced)
    /\ AllCompleted =>
          LET succeeded == {p \in DOMAIN threads :
                               threads[p].op = "ingest" /\ threads[p].pc = "returned"}
          IN  /\ \A p \in succeeded :
                    /\ Cardinality({j \in 1..Len(documents) :
                                       documents[j].id = threads[p].doc_id}) = 1
                    /\ RowsOf(threads[p].doc_id) = threads[p].produced
              /\ \A j \in 1..Len(documents) :
                    \E p \in succeeded : documents[j].id = threads[p].doc_id
              /\ \A i \in 1..Len(chunks) :
                    \E p \in succeeded : chunks[i].doc_id = threads[p].doc_id

---------------------------------------------------------------------------
(* C16 *)

\* the place of a chunk row in storage order
StoredAt(chunk_id) == CHOOSE i \in 1..Len(chunks) : chunks[i].id = chunk_id

SameScore(a, b) == ~ScoreLess(a, b) /\ ~ScoreLess(b, a)

\* C16: of two hits with equal scores the one stored first comes first, and
\* a chunk left out of the hits whose score equals a hit's was stored after
\* that hit.
C16_StableTieBreak ==
    Retrieved =>
        /\ \A n, m \in 1..Len(resp.hits) :
              (n < m /\ SameScore(resp.hits[n].score, resp.hits[m].score))
                  => StoredAt(resp.hits[n].chunk_id) < StoredAt(resp.hits[m].chunk_id)
        /\ \A i \in 1..Len(chunks) :
              chunks[i].id \notin HitIds =>
                  \A n \in 1..Len(resp.hits) :
                      SameScore(resp.hits[n].score,
                                Cosine(QueryVector, chunks[i].embedding))
                          => StoredAt(resp.hits[n].chunk_id) < i

====
